---- MODULE Spec2Model ----
(***************************************************************************)
(* A model of src/pipeline.py: the driver main() with its stages           *)
(* (extrair_dados_api, inicializar_spark, transformar_dados_paises with    *)
(* validar_schema_bruto, carregar_dados_parquet) as a state machine, and   *)
(* the column expressions of the transform as operators.                   *)
(*                                                                         *)
(* The DataFrame the reader returns (its schema and its rows) is an input: *)
(* the JSON reader and its schema inference belong to the engine, not to   *)
(* this repository.  The engine's operators are modelled as the code uses  *)
(* them: explode_outer of a map column yields the entry (key, value) that  *)
(* the select reads as currencies_map.key and currencies_map.value.name,   *)
(* and casts and element_at have their non-ANSI semantics (a failed cast,  *)
(* an index past the end of an array yield null; a long cast to int keeps  *)
(* the low 32 bits).                                                       *)
(***************************************************************************)
EXTENDS Integers, Sequences, FiniteSets, Bags, TLC

VARIABLES
    pc,          \* position of main(): the next call it makes
    raw_file,    \* what CONFIG["raw_data_path"] holds: the DataFrame the reader will return
    spark,       \* main's local `spark`: "None", "Active" or "Stopped"
    stops,       \* number of spark.stop() calls made
    exc,         \* the exception in flight: "none", "Exception" or "SystemExit"
    exitStatus,  \* the process's exit status, -1 while it runs
    log,         \* the lines written to the logger, in order
    started,     \* history: the stages started, in order
    failed,      \* history: the stage that failed, "none" if none did
    df_exploded, \* df_exploded of transformar_dados_paises (rows tagged with their source row)
    df_selected, \* the select of lines 120-131 before .distinct(), a bag of rows
    df_final     \* df_final, a bag of rows

vars == <<pc, raw_file, spark, stops, exc, exitStatus, log, started, failed,
          df_exploded, df_selected, df_final>>

----------------------------------------------------------------------------
(* Bounds of the model *)

\* the largest number of rows of a sampled multi-row collection
MaxRecords == 2
\* the largest number of entries of a `currencies` or `languages` map
MaxEntries == 2

----------------------------------------------------------------------------
(* Column values: null, a number or a string.  A number is hi * 2^32 + n   *)
(* with n its low 32 bits read as a signed integer: hi = 0 for the numbers *)
(* an IntegerType holds.                                                   *)

Null == [kind |-> "null", hi |-> 0, n |-> 0, s |-> ""]
Num(n) == [kind |-> "num", hi |-> 0, n |-> n, s |-> ""]
Long(hi, n) == [kind |-> "num", hi |-> hi, n |-> n, s |-> ""]
Str(s) == [kind |-> "str", hi |-> 0, n |-> 0, s |-> s]

\* whether a number is below zero
Negative(v) == v.kind = "num" /\ (v.hi < 0 \/ (v.hi = 0 /\ v.n < 0))

IsNull(v) == v.kind = "null"

\* pyspark.sql.functions.lit
lit_str(s) == Str(s)
lit_num(n) == Num(n)

\* coalesce(v, d): the first non-null argument
Coalesce(v, d) == IF IsNull(v) THEN d ELSE v

\* the decimal strings of the model and the numbers they denote
ParseNumber(s) ==
    CASE s = "12" -> Num(12)
      [] s = "-3" -> Num(-3)
      [] s = "7"  -> Num(7)
      [] OTHER    -> Null

MutCastInt(v) ==
    CASE v.kind = "num" /\ Negative(v) -> Null
      [] v.kind = "num" -> Num(v.n)
      [] v.kind = "str" -> ParseNumber(v.s)
      [] OTHER          -> Null
\* col.cast(IntegerType()): a number keeps its low 32 bits, a string is parsed,
\* what does not parse is null
CastInt(v) ==
    CASE v.kind = "num" -> Num(v.n)
      [] v.kind = "str" -> ParseNumber(v.s)
      [] OTHER          -> Null

\* col.cast(DoubleType())
CastDouble(v) ==
    CASE v.kind = "num" -> v
      [] v.kind = "str" -> ParseNumber(v.s)
      [] OTHER          -> Null

\* the implicit cast to string that coalesce(col, lit("N/A")) applies to a
\* column that is not a string
CastString(v) ==
    CASE v.kind = "str" -> v
      [] v.kind = "num" /\ v.hi = 0 /\ v.n = 7 -> Str("7")
      [] v.kind = "num" /\ v.hi = 0 /\ v.n = 12 -> Str("12")
      [] v.kind = "num" -> Str("<number>")
      [] OTHER -> Null

----------------------------------------------------------------------------
(* Maps and arrays *)

NullEntry == [key |-> Null, value |-> Null]
NullMap == [isNull |-> TRUE, entries |-> {}]
Map(es) == [isNull |-> FALSE, entries |-> es]

MutExplodeOuter(m) == IF m.isNull THEN {} ELSE m.entries
\* explode_outer(col): one row per entry, and one row of nulls for a null or
\* empty map
ExplodeOuter(m) ==
    IF m.isNull \/ m.entries = {} THEN {NullEntry} ELSE m.entries

NullArray == [isNull |-> TRUE, elems |-> <<>>]
Array(es) == [isNull |-> FALSE, elems |-> es]

MutElementAt(a, i) ==
    IF a.isNull \/ i + 1 > Len(a.elems) THEN Null ELSE a.elems[i + 1]
\* element_at(col, i): the i-th element counted from 1, null past the end
ElementAt(a, i) ==
    IF a.isNull \/ i > Len(a.elems) THEN Null ELSE a.elems[i]

----------------------------------------------------------------------------
(* The inferred schema and validar_schema_bruto *)

Absent == "absent"

\* required_fields, in the order of the dict: field and the class of its
\* expected type
RequiredFields ==
    << [field |-> "name",       type |-> "StructType"],
       [field |-> "currencies", type |-> "MapType"],
       [field |-> "languages",  type |-> "MapType"],
       [field |-> "capital",    type |-> "ArrayType"],
       [field |-> "population", type |-> "IntegerType"],
       [field |-> "area",       type |-> "DoubleType"],
       [field |-> "region",     type |-> "StringType"],
       [field |-> "subregion",  type |-> "StringType"] >>

FieldNames == {RequiredFields[i].field : i \in 1..Len(RequiredFields)}

\* df_schema: the class of each top-level field's type, Absent for a field
\* the schema does not hold
Schemas ==
    [ name       : {Absent, "StructType", "StringType"},
      currencies : {Absent, "MapType", "StructType"},
      languages  : {Absent, "MapType", "StructType"},
      capital    : {Absent, "ArrayType", "StringType"},
      population : {Absent, "IntegerType", "LongType", "StringType"},
      area       : {Absent, "DoubleType", "StringType"},
      region     : {Absent, "StringType", "LongType"},
      subregion  : {Absent, "StringType"} ]

\* field in df_schema
InSchema(f, schema) == schema[f] # Absent

MutIsInstance(observed, expected) == TRUE
\* isinstance(df_schema[field], type(expected_type))
IsInstance(observed, expected) == observed = expected

Warning(f) == [level |-> "WARNING", msg |-> "Tipo do campo diferente do esperado", field |-> f, n |-> 0]

\* the loop of lines 97-102 from the i-th required field on: the field the
\* TypeError names (raised), and the warnings logged before it
RECURSIVE ValidarFrom(_, _, _)
ValidarFrom(schema, i, warnings) ==
    IF i > Len(RequiredFields)
    THEN [raised |-> FALSE, field |-> "", warnings |-> warnings]
    ELSE LET f == RequiredFields[i].field
             expected == RequiredFields[i].type
         IN  IF ~InSchema(f, schema)
             THEN [raised |-> TRUE, field |-> f, warnings |-> warnings]
             ELSE ValidarFrom(schema, i + 1,
                      IF IsInstance(schema[f], expected)
                      THEN warnings
                      ELSE Append(warnings, Warning(f)))

validar_schema_bruto(schema) == ValidarFrom(schema, 1, <<>>)

\* whether the engine resolves lines 117-131 against the schema: explode_outer
\* takes a map, name.common a struct, element_at an array; the casts and
\* coalesce accept the other columns whatever their type
Resolves(schema) ==
    /\ schema.currencies = "MapType"
    /\ schema.languages = "MapType"
    /\ schema.name = "StructType"
    /\ schema.capital = "ArrayType"

----------------------------------------------------------------------------
(* The rows of the raw DataFrame *)

Min(a, b) == IF a < b THEN a ELSE b

CurrencyPool ==
    << [key |-> Str("TST"), value |-> Str("Test Dollar")],
       [key |-> Str("XXX"), value |-> Null],
       [key |-> Str("USD"), value |-> Str("Dollar")] >>

\* two codes of the same language name: the rows they yield are equal
LanguagePool ==
    << [key |-> Str("tst"), value |-> Str("Testish")],
       [key |-> Str("tsx"), value |-> Str("Testish")],
       [key |-> Str("eng"), value |-> Str("English")] >>

MapsOver(pool) ==
    LET es == {pool[i] : i \in 1..Min(MaxEntries, Len(pool))}
    IN  {NullMap} \cup {Map(s) : s \in {t \in SUBSET es : Cardinality(t) <= MaxEntries}}

CurrencyMaps == MapsOver(CurrencyPool)
LanguageMaps == MapsOver(LanguagePool)

Names ==
    { [common |-> Str("Testland"), official |-> Str("Republic of Testland")],
      [common |-> Null, official |-> Str("Republic of Testland")],
      [common |-> Null, official |-> Null] }

Capitals ==
    { NullArray, Array(<<>>), Array(<<Str("TestCity")>>),
      Array(<<Str("TestCity"), Str("OtherCity")>>),
      Array(<<Null, Str("OtherCity")>>) }

\* the values a `population` column of the given type holds
PopulationValues(type) ==
    CASE type = "IntegerType" -> {Null, Num(-5), Num(1000)}
      [] type = "LongType"    -> {Null, Num(-5), Num(1000), Long(1, -5)}
      [] type = "StringType"  -> {Null, Str("abc"), Str("12"), Str("-3")}
      [] OTHER                -> {Null}

\* the values an `area` column of the given type holds
AreaValues(type) ==
    CASE type = "DoubleType"  -> {Null, Num(-1), Num(50)}
      [] type = "StringType"  -> {Null, Str("abc"), Str("12")}
      [] OTHER                -> {Null}

\* the values a `region` column of the given type holds
RegionValues(type) ==
    CASE type = "StringType"  -> {Null, Str("TestRegion")}
      [] type = "LongType"    -> {Null, Num(7)}
      [] OTHER                -> {Null}

SubregionValues == {Null, Str("TestSub")}

\* a value of the set that is not null: its largest 32-bit number, or the
\* string of the example
Typical(values) ==
    CHOOSE v \in values :
        /\ v.kind # "null" /\ v.hi = 0
        /\ \A w \in values : w.kind = "num" => w.n <= v.n
        /\ v.kind = "str" => v.s \in {"12", "TestRegion", "TestSub"}

NullRecord ==
    [ name |-> [common |-> Null, official |-> Null],
      currencies |-> NullMap, languages |-> NullMap, capital |-> NullArray,
      population |-> Null, area |-> Null, region |-> Null, subregion |-> Null ]

\* the record of the end-to-end example, its scalars of the schema's types
BaseRecord(schema) ==
    [ name |-> [common |-> Str("Testland"), official |-> Str("Republic of Testland")],
      currencies |-> Map({CurrencyPool[1]}),
      languages |-> Map({LanguagePool[1]}),
      capital |-> Array(<<Str("TestCity")>>),
      population |-> Typical(PopulationValues(schema.population)),
      area |-> Typical(AreaValues(schema.area)),
      region |-> Typical(RegionValues(schema.region)),
      subregion |-> Typical(SubregionValues) ]

\* the base record with its maps and its population varied
FanOutRecords(schema) ==
    { [BaseRecord(schema) EXCEPT !.currencies = c, !.languages = l, !.population = p] :
        c \in CurrencyMaps, l \in LanguageMaps, p \in PopulationValues(schema.population) }

\* the base record with its other fields varied
FieldRecords(schema) ==
    { [BaseRecord(schema) EXCEPT !.name = nm, !.capital = cp, !.area = a,
                                 !.region = r, !.subregion = sr] :
        nm \in Names, cp \in Capitals, a \in AreaValues(schema.area),
        r \in RegionValues(schema.region), sr \in SubregionValues }

\* the records the multi-row collections are made of
SampleRecords(schema) ==
    { BaseRecord(schema),
      NullRecord,
      [BaseRecord(schema) EXCEPT !.population = CHOOSE p \in PopulationValues(schema.population) :
                                                     p \in {Num(-5), Str("-3")},
                                 !.languages = Map({LanguagePool[i] : i \in 1..Min(MaxEntries, Len(LanguagePool))})],
      [BaseRecord(schema) EXCEPT !.currencies = Map({}),
                                 !.languages = Map({LanguagePool[i] : i \in 1..Min(MaxEntries, Len(LanguagePool))})],
      [BaseRecord(schema) EXCEPT !.name = [common |-> Null, official |-> Null],
                                 !.capital = NullArray] }

SeqsUpTo(S, n) == UNION {[1..k -> S] : k \in 0..n}

\* the DataFrames of the model: every schema over a row of nulls, and every
\* schema the transform resolves over the rows that conform to it
DataFrames ==
    {[schema |-> s, rows |-> <<NullRecord>>] : s \in Schemas}
    \cup
    UNION { {[schema |-> s, rows |-> rs] :
                rs \in {<<r>> : r \in FanOutRecords(s) \cup FieldRecords(s)}
                       \cup SeqsUpTo(SampleRecords(s), MaxRecords)} :
            s \in {t \in Schemas : (\A f \in FieldNames : InSchema(f, t)) /\ Resolves(t)} }

----------------------------------------------------------------------------
(* transformar_dados_paises *)

\* a bag's rows, one copy of each
MutDistinct(b) == b
\* DataFrame.distinct()
Distinct(b) == [r \in DOMAIN b |-> 1]

\* DataFrame.count()
Count(b) == BagCardinality(b)

\* df_raw.withColumn("currencies_map", explode_outer(col("currencies"))): each
\* row keeps its columns (rec) and the position of its source row (src)
WithCurrenciesMap(rows) ==
    UNION { { [src |-> i, rec |-> rows[i], currencies_map |-> c] :
                c \in ExplodeOuter(rows[i].currencies) } :
            i \in 1..Len(rows) }

\* .withColumn("languages_map", explode_outer(col("languages")))
WithLanguagesMap(df) ==
    UNION { { [src |-> x.src, rec |-> x.rec, currencies_map |-> x.currencies_map,
               languages_map |-> l] :
                l \in ExplodeOuter(x.rec.languages) } :
            x \in df }

\* the literal of the string defaults
NA == "N/A"

\* the ten columns of the select, for one exploded row; an entry's value
\* stands for value.name of a currency and for the value of a language
SelectRow(x) ==
    [ nome_comum   |-> Coalesce(x.rec.name.common, lit_str(NA)),
      nome_oficial |-> Coalesce(x.rec.name.official, lit_str(NA)),
      regiao       |-> Coalesce(CastString(x.rec.region), lit_str(NA)),
      sub_regiao   |-> Coalesce(CastString(x.rec.subregion), lit_str(NA)),
      capital      |-> Coalesce(ElementAt(x.rec.capital, 1), lit_str(NA)),
      populacao    |-> Coalesce(CastInt(x.rec.population), lit_num(0)),
      area         |-> Coalesce(CastDouble(x.rec.area), lit_num(0)),
      moeda_codigo |-> Coalesce(x.currencies_map.key, lit_str(NA)),
      moeda_nome   |-> Coalesce(x.currencies_map.value, lit_str(NA)),
      idioma       |-> Coalesce(x.languages_map.value, lit_str(NA)) ]

\* df_exploded.select(...): one row per exploded row
Select(df) ==
    [ r \in {SelectRow(x) : x \in df} |-> Cardinality({x \in df : SelectRow(x) = r}) ]

MutValidPopulation(r) == r.populacao.n > 0
\* the filter "populacao >= 0"
ValidPopulation(r) == r.populacao.n >= 0

\* df_final.filter("populacao >= 0")
FilterValid(b) == [r \in {q \in DOMAIN b : ValidPopulation(q)} |-> b[r]]

L(level, msg) == [level |-> level, msg |-> msg, field |-> "", n |-> 0]

\* count_total - count_valid_population
InvalidCount(df) == Count(df) - Count(FilterValid(df))

\* lines 134-137: the warning, if the counts differ
CountLog(df) ==
    IF Count(df) # Count(FilterValid(df))
    THEN << [level |-> "WARNING", msg |-> "registros com populacao invalida",
             field |-> "", n |-> InvalidCount(df)] >>
    ELSE << >>

NoRows == [r \in {} |-> 1]

\* transformar_dados_paises on the DataFrame the reader returns: whether it
\* returned, what it logged, the stages it started and the one that raised,
\* and its DataFrames
transformar_dados_paises(df_raw) ==
    LET v == validar_schema_bruto(df_raw.schema)
        head == << L("INFO", "Iniciando a etapa de transformacao"),
                   L("INFO", "Iniciando validacao de schema") >> \o v.warnings
        \* the line of the except clause; it holds the exception's text, which
        \* names the field of a TypeError
        error == [L("ERROR", "Erro durante a transformacao dos dados") EXCEPT !.field = v.field]
        exploded == WithLanguagesMap(WithCurrenciesMap(df_raw.rows))
        selected == Select(exploded)
        final == Distinct(selected)
    IN  IF v.raised
        THEN [ ok |-> FALSE, log |-> Append(head, error),
               started |-> <<"validate">>, failed |-> "validate",
               df_exploded |-> {}, df_selected |-> NoRows, df_final |-> NoRows ]
        ELSE IF ~Resolves(df_raw.schema)
        THEN [ ok |-> FALSE,
               log |-> head \o << L("INFO", "Validacao de schema concluida"),
                                  L("INFO", "Aplicando transformacoes"), error >>,
               started |-> <<"validate", "flatten">>, failed |-> "flatten",
               df_exploded |-> {}, df_selected |-> NoRows, df_final |-> NoRows ]
        ELSE [ ok |-> TRUE,
               log |-> head \o << L("INFO", "Validacao de schema concluida"),
                                  L("INFO", "Aplicando transformacoes") >>
                            \o CountLog(final)
                            \o << L("INFO", "Transformacao concluida") >>,
               started |-> <<"validate", "flatten", "dedupe">>, failed |-> "none",
               df_exploded |-> exploded, df_selected |-> selected, df_final |-> final ]

----------------------------------------------------------------------------
(* main *)

\* what requests.get, raise_for_status, response.json and the write of the
\* raw file may do
FetchOutcomes ==
    {"ok", "HTTPError", "ConnectionError", "Timeout", "RequestException", "OSError"}

\* the except clauses of extrair_dados_api: the line logged before the re-raise
ExtrairErrorLog(outcome) ==
    CASE outcome = "HTTPError"        -> << L("ERROR", "Erro de status HTTP") >>
      [] outcome = "ConnectionError"  -> << L("ERROR", "Erro de conexao com a API") >>
      [] outcome = "Timeout"          -> << L("ERROR", "A requisicao para a API expirou") >>
      [] outcome = "RequestException" -> << L("ERROR", "Erro inesperado na requisicao") >>
      [] OTHER                        -> << >>

\* the status of a process whose main() returns
NormalExit == 0

MutSysExitCode == NormalExit
\* sys.exit(1)
SysExitCode == 1

ConcluidoLine == L("INFO", "PIPELINE CONCLUIDO COM SUCESSO")
FalhaLine == L("CRITICAL", "FALHA NA EXECUCAO DO PIPELINE")
FinalizadaLine == L("INFO", "SparkSession finalizada")
\* the critical line of inicializar_spark
FalhaSparkLine == L("CRITICAL", "Falha ao inicializar SparkSession")

MutShouldStopAlways(sp) == TRUE
MutAfterRaise(stage) == IF stage = "fetch" THEN "inicializar_spark" ELSE "carregar"
\* where main() goes on when the call of a stage raises an Exception: its
\* except clause
AfterRaise(stage) == "except"

MutShouldStop(sp) == FALSE
\* `if spark:` of the finally clause
ShouldStop(sp) == sp # "None"

NoFile == [schema |-> [f \in FieldNames |-> Absent], rows |-> << >>]

Init ==
    /\ pc = "main"
    /\ raw_file = NoFile
    /\ spark = "None"
    /\ stops = 0
    /\ exc = "none"
    /\ exitStatus = -1
    /\ log = << >>
    /\ started = << >>
    /\ failed = "none"
    /\ df_exploded = {}
    /\ df_selected = NoRows
    /\ df_final = NoRows

\* line 159-160
Iniciar ==
    /\ pc = "main"
    /\ log' = Append(log, L("INFO", "INICIANDO PIPELINE"))
    /\ pc' = "extrair"
    /\ UNCHANGED <<raw_file, spark, stops, exc, exitStatus, started, failed,
                   df_exploded, df_selected, df_final>>

\* extrair_dados_api(CONFIG["api_url"], CONFIG["raw_data_path"])
Extrair ==
    /\ pc = "extrair"
    /\ started' = Append(started, "fetch")
    /\ \E outcome \in FetchOutcomes :
         IF outcome = "ok"
         THEN /\ \E d \in DataFrames : raw_file' = d
              /\ log' = log \o << L("INFO", "Iniciando extracao da API"),
                                  L("INFO", "Dados brutos salvos com sucesso") >>
              /\ pc' = "inicializar_spark"
              /\ UNCHANGED <<exc, failed>>
         ELSE /\ log' = Append(log, L("INFO", "Iniciando extracao da API"))
                            \o ExtrairErrorLog(outcome)
              /\ exc' = "Exception"
              /\ failed' = "fetch"
              /\ pc' = AfterRaise("fetch")
              /\ UNCHANGED raw_file
    /\ UNCHANGED <<spark, stops, exitStatus, df_exploded, df_selected, df_final>>

\* spark = inicializar_spark(): the session, or a critical line and
\* sys.exit(1), which `except Exception` of main() does not catch
InicializarSpark ==
    /\ pc = "inicializar_spark"
    /\ started' = Append(started, "session")
    /\ \E ok \in BOOLEAN :
         IF ok
         THEN /\ spark' = "Active"
              /\ log' = Append(log, L("INFO", "SparkSession inicializada com sucesso"))
              /\ pc' = "transformar"
              /\ UNCHANGED <<exc, failed>>
         ELSE /\ log' = Append(log, FalhaSparkLine)
              /\ exc' = "SystemExit"
              /\ failed' = "session"
              /\ pc' = "finally"
              /\ UNCHANGED spark
    /\ UNCHANGED <<raw_file, stops, exitStatus, df_exploded, df_selected, df_final>>

\* df_transformado = transformar_dados_paises(spark, CONFIG["raw_data_path"])
Transformar ==
    /\ pc = "transformar"
    /\ LET r == transformar_dados_paises(raw_file)
       IN  /\ log' = log \o r.log
           /\ started' = started \o r.started
           /\ failed' = r.failed
           /\ exc' = IF r.ok THEN exc ELSE "Exception"
           /\ pc' = IF r.ok THEN "show" ELSE AfterRaise(r.failed)
           /\ df_exploded' = r.df_exploded
           /\ df_selected' = r.df_selected
           /\ df_final' = r.df_final
    /\ UNCHANGED <<raw_file, spark, stops, exitStatus>>

\* lines 171-175: printSchema() and show() write to stdout
Show ==
    /\ pc = "show"
    /\ log' = log \o << L("INFO", "Schema final do DataFrame transformado"),
                        L("INFO", "Amostra dos 10 primeiros registros") >>
    /\ pc' = "carregar"
    /\ UNCHANGED <<raw_file, spark, stops, exc, exitStatus, started, failed,
                   df_exploded, df_selected, df_final>>

\* carregar_dados_parquet(df_transformado, CONFIG["processed_data_path"])
Carregar ==
    /\ pc = "carregar"
    /\ started' = Append(started, "write")
    /\ \E ok \in BOOLEAN :
         IF ok
         THEN /\ log' = log \o << L("INFO", "Iniciando carregamento para Parquet"),
                                  L("INFO", "Dados salvos em Parquet com sucesso") >>
              /\ pc' = "concluir"
              /\ UNCHANGED <<exc, failed>>
         ELSE /\ log' = log \o << L("INFO", "Iniciando carregamento para Parquet"),
                                  L("ERROR", "Falha ao salvar o DataFrame em Parquet") >>
              /\ exc' = "Exception"
              /\ failed' = "write"
              /\ pc' = AfterRaise("write")
    /\ UNCHANGED <<raw_file, spark, stops, exitStatus, df_exploded, df_selected, df_final>>

\* line 180
Concluir ==
    /\ pc = "concluir"
    /\ log' = Append(log, ConcluidoLine)
    /\ pc' = "finally"
    /\ UNCHANGED <<raw_file, spark, stops, exc, exitStatus, started, failed,
                   df_exploded, df_selected, df_final>>

\* lines 182-184: the except clause of main()
Except ==
    /\ pc = "except"
    /\ log' = Append(log, FalhaLine)
    /\ exc' = "SystemExit"
    /\ pc' = "finally"
    /\ UNCHANGED <<raw_file, spark, stops, exitStatus, started, failed,
                   df_exploded, df_selected, df_final>>

\* lines 185-188: the finally clause of main()
Finally ==
    /\ pc = "finally"
    /\ IF ShouldStop(spark)
       THEN /\ spark' = "Stopped"
            /\ stops' = stops + 1
            /\ log' = Append(log, FinalizadaLine)
       ELSE UNCHANGED <<spark, stops, log>>
    /\ pc' = "exit"
    /\ UNCHANGED <<raw_file, exc, exitStatus, started, failed,
                   df_exploded, df_selected, df_final>>

\* the process ends: with the code of the SystemExit in flight, or normally
Exit ==
    /\ pc = "exit"
    /\ exitStatus' = IF exc = "SystemExit" THEN SysExitCode ELSE NormalExit
    /\ pc' = "terminated"
    /\ UNCHANGED <<raw_file, spark, stops, exc, log, started, failed,
                   df_exploded, df_selected, df_final>>

Next ==
    \/ Iniciar
    \/ Extrair
    \/ InicializarSpark
    \/ Transformar
    \/ Show
    \/ Carregar
    \/ Concluir
    \/ Except
    \/ Finally
    \/ Exit

Spec == Init /\ [][Next]_vars

----------------------------------------------------------------------------
(* Properties *)

Range(s) == {s[i] : i \in 1..Len(s)}
IsPrefix(s, u) == Len(s) <= Len(u) /\ \A i \in 1..Len(s) : s[i] = u[i]
Max(a, b) == IF a > b THEN a ELSE b
Size(m) == IF m.isNull THEN 0 ELSE Cardinality(m.entries)

StageOrder == <<"fetch", "session", "validate", "flatten", "dedupe", "write">>

\* transformar_dados_paises has returned its DataFrame
TransformReturned == "dedupe" \in Range(started)
\* validar_schema_bruto has run
ValidateRan == "validate" \in Range(started)
\* inicializar_spark has returned a session
Acquired == L("INFO", "SparkSession inicializada com sucesso") \in Range(log)

Rows == raw_file.rows
OutputFields ==
    {"nome_comum", "nome_oficial", "regiao", "sub_regiao", "capital",
     "populacao", "area", "moeda_codigo", "moeda_nome", "idioma"}

\* C1: flatten yields max(1,c) * max(1,l) rows for each record with c
\* currencies and l languages (so at least one), one selected row per exploded
\* row; a row built from the synthetic currency entry of an empty or absent
\* map has currency code and name "N/A", one built from the synthetic language
\* entry has language "N/A".
C1_FlattenRowCount ==
    TransformReturned =>
        /\ \A i \in 1..Len(Rows) :
             LET mine == {x \in df_exploded : x.src = i}
             IN  /\ Cardinality(mine) =
                        Max(1, Size(Rows[i].currencies)) * Max(1, Size(Rows[i].languages))
                 /\ Cardinality(mine) >= 1
                 /\ \A x \in mine :
                      /\ x.rec = Rows[i]
                      /\ SelectRow(x) \in DOMAIN df_selected
                      /\ Size(Rows[i].currencies) = 0 =>
                            /\ SelectRow(x).moeda_codigo = Str("N/A")
                            /\ SelectRow(x).moeda_nome = Str("N/A")
                      /\ Size(Rows[i].languages) = 0 =>
                            SelectRow(x).idioma = Str("N/A")
        /\ \A x \in df_exploded : x.src \in 1..Len(Rows)
        /\ Count(df_selected) = Cardinality(df_exploded)

\* a record with empty `currencies` and two languages has been flattened into
\* exactly two rows
C1_Witness ==
    /\ TransformReturned
    /\ \E i \in 1..Len(Rows) :
         /\ Rows[i].currencies = Map({})
         /\ Size(Rows[i].languages) = 2
         /\ Cardinality({x \in df_exploded : x.src = i}) = 2
         /\ \A x \in df_exploded : x.src = i => SelectRow(x).moeda_codigo = Str("N/A")

\* C2 as claimed: every output row has population >= 0 and area >= 0, and a
\* record with a negative population appears with population 0.
C2_Original ==
    TransformReturned =>
        /\ \A r \in DOMAIN df_final : r.populacao.n >= 0 /\ r.area.n >= 0
        /\ \A x \in df_exploded :
             Negative(x.rec.population) =>
                [SelectRow(x) EXCEPT !.populacao = Num(0)] \in DOMAIN df_final

\* C2 as amended: population and area are the source values cast (0 when the
\* source is absent or does not parse) and keep their sign: a record with a
\* negative population is not dropped and appears with that negative
\* population.
C2_CastKeepsSign ==
    TransformReturned =>
        /\ \A x \in df_exploded :
             \E r \in DOMAIN df_final :
                /\ r = SelectRow(x)
                /\ LET p == x.rec.population
                       a == x.rec.area
                   IN  /\ p.kind = "num" => r.populacao.n = p.n
                       /\ p.kind = "num" /\ p.hi = 0 => r.populacao = p
                       /\ p.kind = "null" \/ p = Str("abc") => r.populacao = Num(0)
                       /\ p = Str("-3") => r.populacao = Num(-3)
                       /\ a.kind = "num" => r.area = a
                       /\ a.kind = "null" \/ a = Str("abc") => r.area = Num(0)
        /\ \A r \in DOMAIN df_final : \E x \in df_exploded : r = SelectRow(x)

\* a record with a negative population is in the output, its population
\* negative
C2_Witness ==
    /\ TransformReturned
    /\ \E x \in df_exploded :
         /\ x.rec.population = Num(-5)
         /\ \E r \in DOMAIN df_final : r = SelectRow(x) /\ r.populacao = Num(-5)

\* the warnings of validar_schema_bruto in the log
TypeWarnings == {e \in Range(log) : e.level = "WARNING" /\ e.msg = Warning("").msg}
ExpectedType(f) ==
    RequiredFields[CHOOSE i \in 1..Len(RequiredFields) : RequiredFields[i].field = f].type
AbsentFields == {f \in FieldNames : raw_file.schema[f] = Absent}
TransformErrors == {e \in Range(log) : e.level = "ERROR" /\ e.msg = "Erro durante a transformacao dos dados"}

C3_State ==
    ValidateRan =>
        /\ failed = "validate" <=> AbsentFields # {}
        /\ failed = "validate" =>
             \A e \in TransformErrors : e.field \in AbsentFields
        /\ failed = "validate" => TransformErrors # {}
        /\ \A w \in TypeWarnings :
             /\ w.field \in FieldNames \ AbsentFields
             /\ raw_file.schema[w.field] # ExpectedType(w.field)
        /\ AbsentFields = {} =>
             \A f \in FieldNames :
                raw_file.schema[f] # ExpectedType(f)
                    => \E w \in TypeWarnings : w.field = f

\* C3: validation raises iff a required field is absent from the schema, and
\* the error names an absent field; a field present with another type only
\* gets a warning naming it (every such field does when no field is absent);
\* the step that validates leaves the raw DataFrame as it was.
C3_Validation ==
    /\ []C3_State
    /\ [][pc = "transformar" => raw_file' = raw_file]_vars

\* `region` is absent and the error names it, after a warning for the type of
\* `population`
C3_Witness ==
    /\ failed = "validate"
    /\ \E e \in TransformErrors : e.field = "region"
    /\ \E w \in TypeWarnings : w.field = "population"

\* C4: the stages start in the order fetch, session, validate, flatten,
\* dedupe, write, and none starts after a stage has failed: the stage that
\* failed is the last one started.
C4_StageOrder ==
    /\ IsPrefix(started, StageOrder)
    /\ failed # "none" => started # << >> /\ started[Len(started)] = failed
    /\ failed = "fetch" => Range(started) \cap {"session", "validate", "flatten"} = {}
    /\ failed \in {"validate", "flatten"} => "write" \notin Range(started)
    /\ pc = "terminated" /\ failed = "none" => started = StageOrder

\* a run whose transform failed after validation has ended
C4_Witness ==
    /\ pc = "terminated"
    /\ failed = "flatten"
    /\ started = <<"fetch", "session", "validate", "flatten">>

\* C5: the process ends with a status other than zero when a stage failed,
\* and with zero exactly when fetch, session, transform and write succeeded;
\* until it has ended it can take a step.
C5_ExitStatus ==
    /\ pc = "terminated" =>
         /\ failed # "none" => exitStatus # 0 /\ exitStatus # -1
         /\ exitStatus = 0 <=> (failed = "none" /\ started = StageOrder)
    /\ pc # "terminated" => exitStatus = -1 /\ ENABLED Next
    /\ failed \in {"none", "fetch", "session", "validate", "flatten", "write"}

\* a run whose session failed to initialise has ended with status 1
C5_Witness ==
    /\ pc = "terminated"
    /\ failed = "session"
    /\ exitStatus = 1

\* C6: an acquired session has been stopped exactly once when the process
\* exits, whatever failed; without a session no stop is made.
C6_SessionReleased ==
    /\ stops <= 1
    /\ stops = 1 <=> spark = "Stopped"
    /\ pc \in {"exit", "terminated"} =>
         /\ Acquired => stops = 1
         /\ ~Acquired => stops = 0 /\ spark = "None"
         /\ failed \in {"fetch", "session"} => ~Acquired
         /\ failed \in {"none", "validate", "flatten", "write"} => Acquired

\* a run whose write failed has ended, its session stopped
C6_Witness ==
    /\ pc = "terminated"
    /\ failed = "write"
    /\ stops = 1

\* the count of the warning of lines 136-137, 0 if there is none
CountWarnings == {e \in Range(log) : e.level = "WARNING" /\ e.msg = "registros com populacao invalida"}
Reported == IF CountWarnings = {} THEN 0 ELSE (CHOOSE e \in CountWarnings : TRUE).n

\* C7 as claimed: the count reported is the number of source records whose
\* population is invalid (negative once cast).
C7_Original ==
    TransformReturned =>
        Reported = Cardinality({i \in 1..Len(Rows) : Negative(CastInt(Rows[i].population))})

\* C7 as amended: the count reported is the number of distinct output rows
\* with a negative population, and the warning is logged iff it is not zero.
C7_CountsRows ==
    TransformReturned =>
        /\ Reported = Cardinality({r \in DOMAIN df_final : r.populacao.n < 0})
        /\ Reported = Cardinality({SelectRow(x) : x \in {y \in df_exploded : Negative(CastInt(y.rec.population))}})
        /\ Cardinality(CountWarnings) <= 1
        /\ CountWarnings # {} <=> \E r \in DOMAIN df_final : r.populacao.n < 0

\* one record with a negative population is reported as two
C7_Witness ==
    /\ TransformReturned
    /\ Len(Rows) = 1
    /\ Negative(Rows[1].population)
    /\ Reported = 2

\* the lines that state how the run ended: those of main(), and the one of
\* inicializar_spark, which exits the process itself
TerminalLines == {ConcluidoLine, FalhaLine, FalhaSparkLine}
TerminalAt == {i \in 1..Len(log) : log[i] \in TerminalLines}

\* C8 as claimed: a run ends with exactly one terminal status line, and no
\* line is logged after it.
C8_Original ==
    pc = "terminated" =>
        /\ Cardinality(TerminalAt) = 1
        /\ log[Len(log)] \in TerminalLines

\* C8 as amended: a run logs exactly one terminal status line (that of
\* success, that of main's except clause, or that of the failed session
\* initialisation); it is the last line unless a session was acquired, and
\* then exactly one line follows it, "SparkSession finalizada".
C8_TerminalLine ==
    /\ Cardinality(TerminalAt) <= 1
    /\ pc = "terminated" =>
         /\ Cardinality(TerminalAt) = 1
         /\ \A i \in TerminalAt :
              /\ log[i] = ConcluidoLine <=> failed = "none"
              /\ log[i] = FalhaSparkLine <=> failed = "session"
              /\ Acquired => i = Len(log) - 1 /\ log[Len(log)] = FinalizadaLine
              /\ ~Acquired => i = Len(log)

\* a successful run has ended: its status line, then the line of the stop
C8_Witness ==
    /\ pc = "terminated"
    /\ failed = "none"
    /\ log[Len(log)] = FinalizadaLine
    /\ log[Len(log) - 1] = ConcluidoLine

\* C9: no field of an output row is null; a null name, region or subregion
\* gives "N/A", a null or empty capital gives "N/A" and another its first
\* element ("N/A" if that is null), a null or unparsable population gives 0
\* and area 0; each field depends on its own source only, and every record
\* has a row.
C9_Defaults ==
    TransformReturned =>
        /\ \A r \in DOMAIN df_final : \A f \in OutputFields : r[f].kind # "null"
        /\ \A i \in 1..Len(Rows) : \E x \in df_exploded : x.src = i
        /\ \A x \in df_exploded :
             \E r \in DOMAIN df_final :
                LET s == x.rec
                    OrNA(v) == IF v.kind = "null" THEN Str("N/A") ELSE v
                IN  /\ r.nome_comum = OrNA(s.name.common)
                    /\ r.nome_oficial = OrNA(s.name.official)
                    /\ s.region.kind # "num" => r.regiao = OrNA(s.region)
                    /\ s.region = Num(7) => r.regiao = Str("7")
                    /\ r.sub_regiao = OrNA(s.subregion)
                    /\ r.capital = IF s.capital.isNull \/ s.capital.elems = << >>
                                   THEN Str("N/A") ELSE OrNA(Head(s.capital.elems))
                    /\ r.populacao = IF s.population.kind = "null" \/ s.population = Str("abc")
                                     THEN Num(0)
                                     ELSE IF s.population.kind = "str"
                                     THEN (IF s.population.s = "12" THEN Num(12) ELSE Num(-3))
                                     ELSE Num(s.population.n)
                    /\ r.area = IF s.area.kind = "null" \/ s.area = Str("abc")
                                THEN Num(0)
                                ELSE IF s.area.kind = "str" THEN Num(12) ELSE s.area
                    /\ r.moeda_codigo = OrNA(x.currencies_map.key)
                    /\ r.moeda_nome = OrNA(x.currencies_map.value)
                    /\ r.idioma = OrNA(x.languages_map.value)

\* a record without capital and one whose population does not parse are in
\* the output with the defaults
C9_Witness ==
    /\ TransformReturned
    /\ \E x \in df_exploded :
         /\ x.rec.capital = NullArray
         /\ x.rec.name.common # Null
         /\ SelectRow(x) \in DOMAIN df_final
         /\ SelectRow(x).capital = Str("N/A")
         /\ SelectRow(x).nome_comum = x.rec.name.common

\* C10: the table has one copy of each row, holds every row the flatten
\* produced, is the same function of the input in every run, and distinct
\* leaves it as it is.
C10_Deduplicated ==
    TransformReturned =>
        /\ \A r \in DOMAIN df_final : df_final[r] = 1
        /\ DOMAIN df_final = DOMAIN df_selected
        /\ DOMAIN df_final = {SelectRow(x) : x \in df_exploded}
        /\ Count(df_final) = Cardinality(DOMAIN df_selected)
        /\ Distinct(df_final) = df_final

\* the flatten produced a row more than once and the table holds it once
C10_Witness ==
    /\ TransformReturned
    /\ \E r \in DOMAIN df_selected : df_selected[r] > 1 /\ df_final[r] = 1

====
